---- MODULE Spec2Model ----
(***************************************************************************)
(* Section-aware segmentation and chunking engine of                       *)
(* src/app/core/etl/multimodal/ingest.py                                   *)
(* (process_document_by_section_async and its helpers).                    *)
(*                                                                         *)
(* A text is modelled as the sequence of its tokens: the words of the      *)
(* stripped string and, wherever two words are separated by something      *)
(* other than one blank, the whitespace run between them (a token of       *)
(* Gaps).  Two adjacent words are separated by exactly one blank.          *)
(* Character-level facts about the words of the vocabulary (lower case     *)
(* form, accent-stripped form, the numeric path a token starts with,       *)
(* which word is a prefix or a suffix of which) are given by explicit      *)
(* tables; a substring test against a phrase compares the tokens one by    *)
(* one, the first and the last up to a prefix or suffix.  Python's         *)
(* 0-based indices are 1-based here.                                       *)
(***************************************************************************)
EXTENDS Integers, Sequences, FiniteSets, TLC

VARIABLES
    elements,              \* the element sequence handed to the engine
    pc,                    \* position in process_document_by_section_async
    idx,                   \* loop index of pass 1 / pass 2
    section_titles,        \* pass 1: parent path -> title
    toc_elements,          \* pass 1: indices recorded as TOC markers
    sections,              \* path -> [path, title, els, pages]
    current_section,       \* pass 2
    last_content_section,  \* pass 2
    chunks,                \* output: list of chunk contents
    metas,                 \* output: list of metadata records
    prov,                  \* per chunk, the element index behind each item
    todo,                  \* chunk generation: section keys still to visit
    k,                     \* chunk generation: position in the section's els
    order,                 \* chunk generation: order counter of the section
    buffer,                \* text / tables / images collected for one chunk
    has_evidence,          \* rule "2": evidence seen since the last flush
    caller,                \* who awaits _describe_images_async
    desc_j,                \* _describe_images_async: position in images
    img_descs,             \* _describe_images_async: out
    outstanding,           \* a Vision Adapter call is in flight
    vision_calls,          \* number of analyze_image_async calls issued
    run,                   \* which call of the engine on these elements this is
    first,                 \* what the first call returned
    provider,              \* settings.VISION_PROVIDER, lower-cased
    rng,                   \* the source of uuid4 during this call of the engine
    tmp_files,             \* number of files written to TMP_DIR (never removed)
    issued,                \* the analyze_image_async calls issued, in order
    completed,             \* the analyze_image_async calls that have ended
    gets,                  \* per get_vision_provider call, the images at hand
    files,                 \* _process_dir: the files of the directory tree
    file_i,                \* _process_dir: position in the files
    handled,               \* _process_dir: what was done with each file so far
    dir_pc,                \* _process_dir: position in the loop body
    processed_files,       \* _process_dir counter
    successful_files,      \* _process_dir counter
    total_chunks,          \* _process_dir counter
    successful_chunks      \* _process_dir counter

dir_vars == <<files, file_i, dir_pc, handled, processed_files, successful_files,
              total_chunks, successful_chunks>>

vars == <<elements, pc, idx, section_titles, toc_elements, sections,
          current_section, last_content_section, chunks, metas, prov,
          todo, k, order, buffer, has_evidence, caller, desc_j, img_descs,
          outstanding, vision_calls, run, first, provider, rng, tmp_files, issued, completed,
          gets, dir_vars>>

engine_vars == <<elements, pc, idx, section_titles, toc_elements, sections,
                 current_section, last_content_section, chunks, metas, prov,
                 todo, k, order, buffer, has_evidence, caller, desc_j, img_descs,
                 outstanding, vision_calls, run, first, provider, rng, tmp_files, issued, completed,
                 gets>>

None == "None"

(***************************************************************************)
(* Character-level tables for the words of the vocabulary.                 *)
(***************************************************************************)

\* str.lower() on one word
LowerWord(w) ==
    CASE w = "Evidencia"    -> "evidencia"
      [] w = "Hallazgo"     -> "hallazgo"
      [] w = "Respuesta"    -> "respuesta"
      [] w = "Consultoría"  -> "consultoría"
      [] w = "Control"      -> "control"
      [] w = "Historial"    -> "historial"
      [] w = "Solución"     -> "solución"
      [] w = "Descripción"  -> "descripción"
      [] w = "Página"       -> "página"
      [] w = "Confidencial" -> "confidencial"
      [] w = "Detalle"      -> "detalle"
      [] w = "Consultoria"  -> "consultoria"
      [] w = "Solucion"     -> "solucion"
      [] w = "Descripcion"  -> "descripcion"
      [] w = "Pagina"       -> "pagina"
      [] w = "Error"        -> "error"
      [] w = "[IMAGEN]"     -> "[imagen]"
      [] w = "Confidencialidad" -> "confidencialidad"
      [] w = "(Control"     -> "(control"
      [] OTHER              -> w

\* _strip_accents on one word: NFKD, combining marks removed
StripAccentsWord(w) ==
    CASE w = "consultoría"  -> "consultoria"
      [] w = "Consultoría"  -> "Consultoria"
      [] w = "solución"     -> "solucion"
      [] w = "Solución"     -> "Solucion"
      [] w = "descripción"  -> "descripcion"
      [] w = "Descripción"  -> "Descripcion"
      [] w = "página"       -> "pagina"
      [] w = "Página"       -> "Pagina"
      [] OTHER              -> w

\* the (\d+(?:\.\d+)*) prefix of a token that is followed, inside the token
\* or at its end, only by separator characters [.)]; None when the token
\* does not have that shape
PathOfToken(w) ==
    CASE w = "1"  -> "1"
      [] w = "1." -> "1"
      [] w = "2." -> "2"
      [] w = "3." -> "3"
      [] w = "2.1" -> "2.1"
      [] w = "7"  -> "7"
      [] OTHER    -> None

\* \d+ matches the whole token
AllDigits(w) == w \in {"1", "7"}

Lower(ws) == [i \in 1..Len(ws) |-> LowerWord(ws[i])]

_strip_accents(ws) == [i \in 1..Len(ws) |-> StripAccentsWord(ws[i])]

\* whitespace between two words that is not one blank: two blanks, a line
\* break, a tab
Gaps == { "  ", "\n", "\t" }

\* str.split(), and re.sub(r"\s+", " ", ...) on a stripped string: every
\* whitespace run counts as one blank
Words(ws) == SelectSeq(ws, LAMBDA w : w \notin Gaps)

\* the word w ends with the characters of p
EndsWithWord(w, p) == w = p \/ <<w, p>> \in { <<"(control", "control">> }

\* the word w starts with the characters of p
StartsWithWord(w, p) ==
    w = p \/ <<w, p>> \in { <<"versiones:", "versiones">>,
                            <<"confidencialidad", "confidencial">> }

\* the characters of p occur in the word w
HoldsWord(w, p) == StartsWithWord(w, p) \/ EndsWithWord(w, p)

\* phrase in text (substring of characters): the words of the phrase, one
\* blank between them, occur in the text; a whitespace run that is not one
\* blank does not match the blank of the phrase
Contains(ws, phrase) ==
    \E i \in 0..(Len(ws) - Len(phrase)) :
        \A j \in 1..Len(phrase) :
            CASE Len(phrase) = 1 -> HoldsWord(ws[i + j], phrase[j])
              [] j = 1           -> EndsWithWord(ws[i + j], phrase[j])
              [] j = Len(phrase) -> StartsWithWord(ws[i + j], phrase[j])
              [] OTHER           -> ws[i + j] = phrase[j]

SKIP_TOKENS == { <<"confidencial">>, <<"cb", "consultores", "chile.">>,
                 <<"grupo", "epm">>, <<"grupo", "saesa">> }

SectionKeys == <<"1", "2", "3">>

SECTION_KEYWORDS(s) ==
    CASE s = "1" -> { <<"control", "de", "la", "plantilla">>,
                      <<"control", "de", "versiones">>,
                      <<"historial", "de", "cambios">> }
      [] s = "2" -> { <<"descripción", "y", "evidencia">>,
                      <<"evidencia", "hallazgo">>,
                      <<"descripción", "hallazgo">> }
      [] s = "3" -> { <<"respuesta", "consultoría">>,
                      <<"respuesta", "consultoria">>,
                      <<"solución">> }

MarkerWordLimit == 10

\* s = " ".join(text.lower().split())
_is_footer_or_disclaimer(text) ==
    LET s == Words(Lower(text))
    IN  \/ Len(s) = 0
        \/ (Len(s) >= 2 /\ s[1] = "página")
        \/ (Len(s) >= 2 /\ s[1] = "pagina")
        \/ \E tok \in SKIP_TOKENS : Contains(s, tok)

\* HEADING_RE on the whitespace-collapsed line: a path token, a separator,
\* a title, and an optional trailing page number that is discarded
_detect_heading(line) ==
    LET clean_line == Words(line)
    IN  IF Len(clean_line) >= 2 /\ PathOfToken(clean_line[1]) # None
        THEN LET rest == Tail(clean_line)
                 title == IF Len(rest) >= 2 /\ AllDigits(rest[Len(rest)])
                          THEN SubSeq(rest, 1, Len(rest) - 1)
                          ELSE rest
             IN  [path |-> PathOfToken(clean_line[1]), title |-> title]
        ELSE IF Len(clean_line) = 1 /\ clean_line[1] = "2.1"
        THEN [path |-> "2", title |-> <<"1">>]
        ELSE [path |-> None, title |-> <<>>]

\* kw in text_lower reads the text as it is, whitespace included; the
\* word count is that of text.split()
_infer_section_from_content(text, is_marker_check) ==
    LET text_lower == _strip_accents(Lower(text))
        Hit(s) == \E kw \in SECTION_KEYWORDS(s) : Contains(text_lower, kw)
        matches == SelectSeq(SectionKeys, Hit)
        word_count == Len(Words(text))
    IN  IF matches = <<>> THEN None
        ELSE IF is_marker_check
             THEN IF word_count < MarkerWordLimit /\ Len(matches) = 1
                  THEN matches[1] ELSE None
             ELSE matches[1]

NoPage == -1

_page_of(el) == el.page

_get_section_parent(path) ==
    CASE path = "2.1" -> "2"
      [] OTHER        -> path

(***************************************************************************)
(* Elements.  kind is the type name of the element; text is str(el);       *)
(* page is metadata.page_number (NoPage for None); image says what         *)
(* happens when an Image is described: "ok" (bytes present, the adapter    *)
(* succeeds), "nobytes" (_extract_image_bytes returns None), "mraise"      *)
(* (_materialize_image raises: the image path cannot be read or the        *)
(* temporary file cannot be written), "fail" (the adapter reports success  *)
(* false) or "raise" (the call raises); html says how a Table is rendered: *)
(* "text" (text_as_html is present and the converter renders the table),   *)
(* "empty" (text_as_html is a table without cells, the converter yields    *)
(* nothing), "none" (there is no text_as_html and the converter is given   *)
(* str(el)) or "mdraise" (text_as_html is present, the converter raises    *)
(* and the text of the cells is taken); rows is the markup of              *)
(* text_as_html: its rows, each the sequence of its cells, each cell the   *)
(* tokens of its text.                                                     *)
(***************************************************************************)
Txt(ws, p) == [kind |-> "Text", text |-> ws, page |-> p, image |-> "na", html |-> "na",
               rows |-> <<>>]

\* a Table with text ws whose text_as_html has the given rows
TblRows(ws, rs, h, p) == [kind |-> "Table", text |-> ws, page |-> p, image |-> "na",
                          html |-> h, rows |-> rs]

\* a Table whose text_as_html, when there is one, holds str(el) in one cell
Tbl(ws, h, p) == TblRows(ws, IF h \in {"text", "mdraise"} THEN << <<ws>> >> ELSE <<>>, h, p)

Img(ws, r, p) == [kind |-> "Image", text |-> ws, page |-> p, image |-> r, html |-> "na",
                  rows |-> <<>>]

H1 == Txt(<<"1.", "Historial">>, 1)

H2 == Txt(<<"2.", "Descripción">>, 1)

H3 == Txt(<<"3.", "Solución", "7">>, 1)

TextA == Txt(<<"paso", "uno">>, 1)

TextK2 == Txt(<<"Evidencia", "Hallazgo", "inicial">>, 1)

Marker1 == Tbl(<<"Control", "de", "versiones">>, "text", 1)

Marker2 == Tbl(<<"Evidencia", "Hallazgo">>, "text", 1)

Marker3 == Tbl(<<"Respuesta", "Consultoría">>, "text", 2)

TableD == Tbl(<<"dato", "valor">>, "text", 2)

ImgOk == Img(<<"[IMAGEN]">>, "ok", NoPage)

ImgNoBytes == Img(<<"[IMAGEN]">>, "nobytes", 2)

ImgFail == Img(<<"[IMAGEN]">>, "fail", NoPage)

ImgRaise == Img(<<"[IMAGEN]">>, "raise", NoPage)

TablePlantilla == Tbl(<<"Control", "de", "la", "plantilla">>, "text", 1)

TableEmpty == Tbl(<<"dato">>, "empty", 1)

\* a table without text_as_html and a table of two cells on which the
\* converter raises
TablePlain == Tbl(<<"dato", "valor">>, "none", 2)

TableMdRaise == TblRows(<<"dato", "valor">>, << <<<<"dato">>, <<"valor">>>> >>, "mdraise", 2)

\* an image that cannot be materialized
ImgMRaise == Img(<<"[IMAGEN]">>, "mraise", NoPage)

\* a heading whose title holds characters that _norm deletes
H2Img == Txt(<<"2.", "[IMAGEN]">>, 1)

FooterEl == [kind |-> "Footer", text |-> <<"paso", "uno">>, page |-> 1, image |-> "na", html |-> "na",
             rows |-> <<>>]

\* a second top-level heading of path "2" and a sub-heading of it
H2b == Txt(<<"2.", "Hallazgo">>, 1)

H21 == Txt(<<"2.1", "Detalle">>, 1)

\* elements whose text is empty, and an image whose text holds keywords
ImgEmpty == Img(<<>>, "ok", 2)

TextEmpty == Txt(<<>>, 2)

ImgK2 == Img(<<"Evidencia", "Hallazgo">>, "ok", NoPage)

\* a table of ten words that names section "3"
TableK3Long == Tbl(<<"Respuesta", "Consultoría", "dato", "valor", "dato", "valor",
                     "dato", "valor", "dato", "valor">>, "text", 2)

\* a page-number line and a line with a boilerplate token
NoisePage == Txt(<<"Página", "7">>, 2)

NoiseConf == Txt(<<"Detalle", "Confidencial">>, 2)

\* a table that names section "2" and section "3"
TableAmb == Tbl(<<"Evidencia", "Hallazgo", "Respuesta", "Consultoría">>, "text", 2)

\* a text that holds a keyword of section "3" written with its accent
TextSol == Txt(<<"Solución", "propuesta">>, 2)

\* a text whose page number is 0
TextP0 == Txt(<<"paso", "cero">>, 0)

\* a line of prose that starts with a number and a separator
LongLine == Txt(<<"2.", "paso", "uno", "dato", "valor", "paso", "uno", "dato", "valor",
                  "paso", "uno", "dato", "valor", "paso", "uno", "dato", "valor">>, 2)

\* texts that name section "1" with one blank between the words, with two
\* blanks, with a line break and with a tab inside the keyword
TextK1 == Txt(<<"Control", "de", "versiones">>, 1)

TextK1Wide == Txt(<<"Control", "de", "  ", "versiones">>, 1)

TextK1Line == Txt(<<"Control", "de", "\n", "versiones">>, 1)

TableK1Tab == Tbl(<<"Control", "\t", "de", "versiones">>, "text", 1)

\* a text whose keyword of section "1" is broken by two blanks and whose
\* keyword of section "2" is not
TextK1WideK2 == Txt(<<"Control", "de", "  ", "versiones", "Evidencia", "Hallazgo">>, 1)

\* a keyword that starts and ends inside longer words
TextK1Affix == Txt(<<"(Control", "de", "versiones:">>, 1)

\* a page-number line, a heading and boilerplate with wide whitespace or
\* inside a longer word
NoisePageWide == Txt(<<"Página", "  ", "7">>, 2)

H2Wide == Txt(<<"2.", "\n", "Descripción">>, 1)

NoiseConfLong == Txt(<<"Confidencialidad", "\t", "dato">>, 2)

\* tables of two columns, of two rows, without text_as_html and with wide
\* whitespace, and with wide whitespace in a cell on which the converter raises
TableCols == TblRows(<<"dato", "valor">>, << <<<<"dato">>, <<"valor">>>> >>, "text", 2)

TableRows == TblRows(<<"dato", "valor">>, << <<<<"dato">>>>, <<<<"valor">>>> >>, "text", 2)

TablePlainWide == Tbl(<<"dato", "  ", "valor">>, "none", 2)

TableCellWide == TblRows(<<"dato", "valor">>,
                         << <<<<"dato", "  ", "valor">>>>, <<<<"paso">>>> >>, "mdraise", 2)

TableCellLine == TblRows(<<"dato", "valor">>, << <<<<"dato", "\n", "valor">>, <<"paso">>>> >>,
                         "text", 2)

\* bounds of the inputs: the longest body of each family of documents
MaxLen == 3

StepLen == 6

Sec1Len == 3

StdLen == 3

TitleLen == 3

RenderLen == 3

SpaceLen == 2

CellLen == 2

BoundedSeq(S, n) == UNION { [1..m -> S] : m \in 0..n }

TocPrefixes == { <<>>, <<H2>>, <<H1, H2, H3>> }

Pool == { TextA, TextK2, H3, Marker2, Marker3, TableD, ImgOk, FooterEl }

\* documents whose section "2" holds a run of steps, alone or after a section "1"
StepPrefixes == { <<H2, Marker2>>, <<H1, H2, Marker1, TextA, Marker2>> }

StepPool == { TextA, TableD, ImgOk }

\* documents whose section "1" holds every kind of image and table
Sec1Pool == { TextA, TableD, ImgOk, ImgNoBytes, ImgFail, ImgRaise,
              TablePlantilla, TableEmpty }

GeneralDocs == { pre \o body : pre \in TocPrefixes, body \in BoundedSeq(Pool, MaxLen) }

StepDocs == { pre \o body : pre \in StepPrefixes, body \in BoundedSeq(StepPool, StepLen) }

Sec1Docs == { <<H1, Marker1>> \o body : body \in BoundedSeq(Sec1Pool, Sec1Len) }

\* documents with sections "2" and "3" but no section "1", the body in section "3"
StdPrefix == <<H2, H3, Marker3>>

StdPool == { TextA, Marker1, Marker2, TableK3Long, ImgK2, ImgRaise }

NoisePool == { TextA, ImgEmpty, TextEmpty, NoisePage, NoiseConf }

\* ambiguous tables, accented keywords and page 0
MiscPool == { TextA, TableAmb, TextSol, TextP0 }

StdDocs == { StdPrefix \o body : body \in BoundedSeq(StdPool, StdLen) \cup BoundedSeq(NoisePool, StdLen)
                                          \cup BoundedSeq(MiscPool, StdLen) }

\* documents with several headings of path "2"
TitlePool == { H2, H2b, H21, TextK2, LongLine, H2Img }

TitleDocs == BoundedSeq(TitlePool, TitleLen)

\* documents whose section "1" holds tables rendered without the table
\* syntax and images that cannot be materialized
RenderPool == { TextA, TablePlain, TableMdRaise, ImgMRaise, ImgOk }

RenderDocs == { <<H1, Marker1>> \o body : body \in BoundedSeq(RenderPool, RenderLen) }

\* documents whose texts hold whitespace other than one blank, or words
\* that contain a keyword
SpacePool == { TextA, TextK1, TextK1Wide, TextK1Line, TableK1Tab, TextK1WideK2,
               TextK1Affix, NoisePageWide, H2Wide, NoiseConfLong }

SpaceDocs == { <<H1, H2>> \o body : body \in BoundedSeq(SpacePool, SpaceLen) }

\* documents whose section "1" holds tables of several cells
CellPool == { TextA, TableCols, TableRows, TablePlainWide, TableCellWide, TableCellLine }

CellDocs == { <<H1, Marker1>> \o body : body \in BoundedSeq(CellPool, CellLen) }

Inputs == GeneralDocs \cup StepDocs \cup Sec1Docs \cup StdDocs \cup TitleDocs \cup RenderDocs
              \cup SpaceDocs \cup CellDocs

\* states of the source of uuid4: each gives other file names
Seeds == { "seed_a", "seed_b" }

\* name = f"{uuid.uuid4().hex}.jpg": the name of the file written last
TmpName == <<rng, tmp_files>>

\* values of the VISION_PROVIDER setting
Providers == { "ollama", "otro" }

NoiseKinds == {"Header", "Footer", "PageBreak"}

EmptyMap == [p \in {} |-> None]

EmptyBuffer == [text |-> <<>>, tables |-> <<>>, images |-> <<>>]

\* the locals of one call of the engine
\* the locals of the engine at the start of a call, TMP_DIR empty and no
\* call made yet
FreshLocals ==
    /\ rng = "seed_a"
    /\ tmp_files = 0
    /\ idx = 1
    /\ section_titles = EmptyMap
    /\ toc_elements = {}
    /\ sections = EmptyMap
    /\ current_section = None
    /\ last_content_section = None
    /\ chunks = <<>>
    /\ metas = <<>>
    /\ prov = <<>>
    /\ todo = <<>>
    /\ k = 1
    /\ order = 1
    /\ buffer = EmptyBuffer
    /\ has_evidence = FALSE
    /\ caller = None
    /\ desc_j = 1
    /\ img_descs = <<>>
    /\ outstanding = FALSE
    /\ vision_calls = 0
    /\ run = 1
    /\ first = None
    /\ issued = <<>>
    /\ completed = <<>>
    /\ gets = <<>>

EngineStart(docs, names) ==
    /\ elements \in docs
    /\ provider \in names
    /\ pc = "pass1"
    /\ FreshLocals

\* the engine called on its own, outside _process_dir
Start(docs, names) ==
    /\ EngineStart(docs, names)
    /\ files = <<>>
    /\ file_i = 1
    /\ dir_pc = "none"
    /\ handled = <<>>
    /\ processed_files = 0
    /\ successful_files = 0
    /\ total_chunks = 0
    /\ successful_chunks = 0

\* every document is processed with the provider of the default setting;
\* the documents of two families also with a name the factory does not know
Init ==
    \/ Start(Inputs, {"ollama"})
    \/ Start(Sec1Docs \cup StdDocs, Providers \ {"ollama"})

IsImage(el) == el.kind = "Image"

IsTable(el) == el.kind = "Table"

(***************************************************************************)
(* Pass 1: detection of headings (section registry and TOC markers).       *)
(***************************************************************************)

\* the noise test both passes apply to an element
IsNoise(el) == el.kind \in NoiseKinds \/ _is_footer_or_disclaimer(el.text)

\* section_titles after a heading (path, title) was detected
RegisterHeading(titles, path, title) ==
    LET parent == _get_section_parent(path)
    IN  IF parent \notin DOMAIN titles \/ path = parent
        THEN [p \in DOMAIN titles \cup {parent} |->
                 IF p = parent THEN title ELSE titles[p]]
        ELSE titles

Pass1Step ==
    /\ pc = "pass1"
    /\ idx <= Len(elements)
    /\ LET el == elements[idx]
           h  == _detect_heading(el.text)
       IN  IF ~IsNoise(el) /\ h.path # None /\ h.title # <<>>
           THEN /\ section_titles' = RegisterHeading(section_titles, h.path, h.title)
                /\ toc_elements' = toc_elements \cup {idx}
           ELSE UNCHANGED <<section_titles, toc_elements>>
    /\ idx' = idx + 1
    /\ UNCHANGED <<elements, pc, sections, current_section, last_content_section,
                   chunks, metas, prov, todo, k, order, buffer, has_evidence,
                   caller, desc_j, img_descs, outstanding, vision_calls,
                   run, first, provider, rng, tmp_files, issued, completed, gets, dir_vars>>

\* end of the pass-1 loop: the sections dictionary is built
BuildSections ==
    /\ pc = "pass1"
    /\ idx > Len(elements)
    /\ sections' = [sec \in DOMAIN section_titles |->
                       [path |-> sec, title |-> section_titles[sec],
                        els |-> <<>>, pages |-> {}]]
    /\ pc' = "pass2"
    /\ idx' = 1
    /\ UNCHANGED <<elements, section_titles, toc_elements, current_section,
                   last_content_section, chunks, metas, prov, todo, k, order,
                   buffer, has_evidence, caller, desc_j, img_descs, outstanding,
                   vision_calls, run, first, provider, rng, tmp_files, issued, completed, gets, dir_vars>>

(***************************************************************************)
(* Pass 2: assignment of elements to sections.                             *)
(***************************************************************************)

\* mutant: pass 2 forgets the TOC markers of pass 1
Skipped2NoToc(i, el) == IsNoise(el)

\* the continue at the head of the pass-2 loop
Skipped2(i, el) == i \in toc_elements \/ IsNoise(el)

\* sections[target]["els"].append(el) and the page bookkeeping
AppendTo(secs, target, i, el) ==
    LET p == _page_of(el)
    IN  [secs EXCEPT ![target].els = Append(@, i),
                     ![target].pages = IF p # NoPage /\ p # 0 THEN @ \cup {p} ELSE @]

\* mutant: an Image whose text names a section is handled like a Text
TakesImageBranchUnlessKeyword(el) ==
    IsImage(el) /\ _infer_section_from_content(el.text, FALSE) = None

\* if "Image" in et
TakesImageBranch(el) == IsImage(el)

\* target_section of an Image
ImageTarget(last, current) == IF last # None THEN last ELSE current

\* is_pure_marker
IsPureMarker(el) == IsTable(el) /\ _infer_section_from_content(el.text, TRUE) # None

\* mutant: a section is entered only from the initial state
SwitchesOnlyFromNone(potential, current, secs) ==
    potential # None /\ potential \in DOMAIN secs /\ current = None

\* mutant: the switch does not ask whether the section is registered
SwitchesUnregistered(potential, current, secs) ==
    potential # None /\ potential # current

\* the section switch test of pass 2
Switches(potential, current, secs) ==
    potential # None /\ potential \in DOMAIN secs /\ potential # current

\* whether the element is dropped by the continue after a switch
DroppedAsMarker(switch, is_pure_marker) == switch /\ is_pure_marker

\* mutant: an image makes its target the last content section
LastContentAfterImageTarget(last, target) == IF target # None THEN target ELSE last

\* the image branch does not assign last_content_section
LastContentAfterImage(last, target) == last

\* sections[target]["els"].append(el): a key that is not registered raises
\* KeyError, which leaves the engine
Assign(target, i, el) ==
    IF target \in DOMAIN sections
    THEN /\ sections' = AppendTo(sections, target, i, el)
         /\ pc' = pc
    ELSE /\ pc' = "raised"
         /\ UNCHANGED sections

Pass2Step ==
    /\ pc = "pass2"
    /\ idx <= Len(elements)
    /\ LET el == elements[idx]
       IN  IF Skipped2(idx, el)
           THEN UNCHANGED <<pc, sections, current_section, last_content_section>>
           ELSE IF TakesImageBranch(el)
           THEN LET target_section == ImageTarget(last_content_section, current_section)
                IN  /\ IF target_section # None
                       THEN Assign(target_section, idx, el)
                       ELSE UNCHANGED <<pc, sections>>
                    /\ last_content_section' =
                           LastContentAfterImage(last_content_section, target_section)
                    /\ UNCHANGED current_section
           ELSE LET potential_section == _infer_section_from_content(el.text, FALSE)
                    is_pure_marker == IsPureMarker(el)
                    switch == Switches(potential_section, current_section, sections)
                    cur == IF switch THEN potential_section ELSE current_section
                IN  /\ current_section' = cur
                    /\ IF DroppedAsMarker(switch, is_pure_marker)
                       THEN UNCHANGED <<pc, sections, last_content_section>>
                       ELSE IF cur # None
                       THEN /\ Assign(cur, idx, el)
                            /\ last_content_section' =
                                   IF ~is_pure_marker /\ cur \in DOMAIN sections
                                   THEN cur ELSE last_content_section
                       ELSE UNCHANGED <<pc, sections, last_content_section>>
    /\ idx' = idx + 1
    /\ UNCHANGED <<elements, section_titles, toc_elements, chunks, metas, prov,
                   todo, k, order, buffer, has_evidence, caller, desc_j, img_descs,
                   outstanding, vision_calls,
                   run, first, provider, rng, tmp_files, issued, completed, gets, dir_vars>>

\* order of sorted() on the section keys (string order of the paths)
PathOrder == <<"1", "2", "3", "7">>

\* mutant: the sections are visited in descending order of path
SortedKeysReversed(secs) ==
    LET up == SelectSeq(PathOrder, LAMBDA p : p \in DOMAIN secs)
    IN  [n \in 1..Len(up) |-> up[Len(up) + 1 - n]]

SortedKeys(secs) == SelectSeq(PathOrder, LAMBDA p : p \in DOMAIN secs)

\* end of the pass-2 loop: chunk generation starts
StartChunks ==
    /\ pc = "pass2"
    /\ idx > Len(elements)
    /\ pc' = "sections"
    /\ todo' = SortedKeys(sections)
    /\ UNCHANGED <<elements, idx, section_titles, toc_elements, sections,
                   current_section, last_content_section, chunks, metas, prov,
                   k, order, buffer, has_evidence, caller, desc_j, img_descs,
                   outstanding, vision_calls,
                   run, first, provider, rng, tmp_files, issued, completed, gets, dir_vars>>

(***************************************************************************)
(* Chunk generation.  A buffered string is kept with the index of the      *)
(* element it came from: body is the string (its words), src the           *)
(* provenance the coverage properties read.                                *)
(***************************************************************************)
Item(i, body) == [src |-> i, body |-> body]

Bodies(items) == [n \in 1..Len(items) |-> items[n].body]

Srcs(items) == [n \in 1..Len(items) |-> items[n].src]

RECURSIVE Flatten(_)
\* the concatenation of a sequence of sequences
Flatten(ss) == IF ss = <<>> THEN <<>> ELSE Head(ss) \o Flatten(Tail(ss))

\* the converter on text outside a table: runs of blanks and tabs become
\* one blank, a line break stays
MdText(ws) == SelectSeq(ws, LAMBDA w : w \notin Gaps \/ w = "\n")

\* the converter on one row: every cell on one line, its whitespace runs
\* one blank each, between pipes
MdRow(row) == <<"|">> \o Flatten([c \in 1..Len(row) |-> Words(row[c]) \o <<"|">>])

\* the line under the first row: one "---" per cell of that row
MdRule(row) == [c \in 1..Len(row) |-> "| ---"] \o <<"|">>

\* the converter on the markup of a table: the first row, the rule, the
\* other rows, one per line
MdTable(rs) ==
    IF rs = <<>> THEN <<>>
    ELSE MdRow(rs[1]) \o <<"\n">> \o MdRule(rs[1])
             \o Flatten([r \in 1..(Len(rs) - 1) |-> <<"\n">> \o MdRow(rs[r + 1])])

\* BeautifulSoup(html).get_text(separator=" | ", strip=True): the text
\* of the cells as it is, " | " between one cell and the next
CellTexts(rs) ==
    LET cells == Flatten(rs)
    IN  Flatten([c \in 1..Len(cells) |->
                    IF c = 1 THEN cells[c] ELSE <<"|">> \o cells[c]])

\* markdown of a Table: the converter on text_as_html or, when there is
\* none, on str(el); when the converter raises, the text of the cells;
\* str(el).strip() for any other element
_element_to_markdown(el) ==
    IF IsTable(el)
    THEN CASE el.html = "none"    -> MdText(el.text)
           [] el.html = "mdraise" -> CellTexts(el.rows)
           [] OTHER               -> MdTable(el.rows)
    ELSE el.text

\* mutant: only the first block of the content is hashed
_content_sha_FirstBlock(text) == [alg |-> "sha256", of |-> SubSeq(text, 1, 1)]

_content_sha(text) == [alg |-> "sha256", of |-> text]

\* mutant: the description carries what uuid4 drew for the name of the
\* temporary file
DescriptionWithTmpName(el) == <<"[IMAGEN]", TmpName[1]>>

\* what _describe_images_async appends for one image: the answer of the
\* adapter, or a placeholder when the answer is a failure, the call raises
\* or _materialize_image raises
Description(el) ==
    CASE el.image = "ok"     -> <<"[IMAGEN]", "texto", "de", "la", "imagen">>
      [] el.image = "fail"   -> <<"[IMAGEN]", "Descripción", "no", "disponible.">>
      [] el.image = "raise"  -> <<"[IMAGEN]", "Error", "de", "procesamiento">>
      [] el.image = "mraise" -> <<"[IMAGEN]", "Error", "de", "procesamiento">>

\* _materialize_image: a path, None when there are no bytes, or an exception
_materialize_image(el) ==
    CASE el.image = "nobytes" -> None
      [] el.image = "mraise"  -> "raises"
      [] OTHER                -> "path"

\* _materialize_image returns a path
Materializes(el) == _materialize_image(el) = "path"

\* re.sub(r"[^a-z0-9_\-\.]+", "", w) on one folded word; a blank inside the
\* word has become "_" before
NormWord(w) ==
    CASE w = "[imagen]" -> "imagen"
      [] w = "|"        -> ""
      [] w = "| ---"    -> "_---"
      [] w = "(control" -> "control"
      [] w = "versiones:" -> "versiones"
      [] OTHER          -> w

\* every whitespace run becomes "_", so the words are joined by "_"; a word
\* may come out empty
_norm(ws) ==
    LET s2 == Words(ws)
    IN  [i \in 1..Len(s2) |-> NormWord(LowerWord(StripAccentsWord(s2[i])))]

CountWord(content, w) ==
    Cardinality({ ij \in UNION { { <<i, j>> : j \in 1..Len(content[i]) } :
                                  i \in 1..Len(content) } :
                  content[ij[1]][ij[2]] = w })

SetMin(S) == CHOOSE x \in S : \A y \in S : x <= y

SetMax(S) == CHOOSE x \in S : \A y \in S : x >= y

\* page_range of the section: [pages[0], pages[-1]] of the sorted pages, or None
\* mutant: the range ends at the first page
PageRangeMinOnly(pages) == IF pages = {} THEN <<>> ELSE <<SetMin(pages), SetMin(pages)>>

PageRange(pages) == IF pages = {} THEN <<>> ELSE <<SetMin(pages), SetMax(pages)>>

_mk_meta(sec, ord, ctype, content) ==
    [section_path         |-> sec.path,
     section_title        |-> sec.title,
     section_title_norm   |-> _norm(sec.title),
     chunk_type           |-> ctype,
     group_id             |-> <<"sec:", sec.path>>,
     order_in_group       |-> ord,
     within_section_index |-> ord,
     page_range           |-> PageRange(sec.pages),
     image_count          |-> CountWord(content, "[IMAGEN]"),
     table_count          |-> CountWord(content, "| ---"),
     content_sha          |-> _content_sha(content)]

\* mutant: the paths of the bulk rule and of the stepped rule are exchanged
RuleOfSwapped(path) ==
    IF path = "2" THEN "rule1" ELSE IF path = "1" THEN "rule2" ELSE "default"

\* the assembly rule chosen for a section path
RuleOf(path) == IF path = "1" THEN "rule1" ELSE IF path = "2" THEN "rule2" ELSE "default"

\* mutant: the tables are put before the texts
AssembleTablesFirst(buf, descs) == buf.tables \o buf.text \o descs

\* the items of a chunk: texts, then tables, then image descriptions
Assemble(buf, descs) == buf.text \o buf.tables \o descs

\* mutant: the chunk type ignores the descriptions
ChunkTypeAlwaysText(descs) == "text"

\* ctype = "mixed" if img_descs else "text"
ChunkType(descs) == IF descs # <<>> THEN "mixed" ELSE "text"

\* table filter of rule "1"
Rule1KeepsTable(md_table) ==
    md_table # <<>> /\ ~Contains(Lower(md_table), <<"control", "de", "la", "plantilla">>)

\* table filter of the standard rule
DefaultKeepsTable(md_table, path) ==
    md_table # <<>> /\ _infer_section_from_content(md_table, FALSE) # path

\* mutant: the flush test reads the buffered tables instead of the buffered text
FlushNeededTables(evidence, buf) == evidence /\ buf.tables # <<>>

\* the flush test of rule "2" on a Text element
FlushNeeded(evidence, buf) == evidence /\ buf.text # <<>>

\* mutant: the counter is not advanced
OrderNotAdvanced(ord, emitted) == ord

\* order after a flush
OrderAfterFlush(ord, emitted) == IF emitted THEN ord + 1 ELSE ord

CurSec == sections[Head(todo)]

CurEl == elements[CurSec.els[k]]

\* mutant: a section without elements is assembled like any other
SkipsSectionNever(sec) == FALSE

\* if not els: continue
SkipsSection(sec) == sec.els = <<>>

\* for sec_key in sorted(sections.keys()): a section without elements is skipped
NextSection ==
    /\ pc = "sections"
    /\ todo # <<>>
    /\ IF SkipsSection(CurSec)
       THEN /\ todo' = Tail(todo)
            /\ UNCHANGED <<pc, k, order, buffer, has_evidence>>
       ELSE /\ pc' = RuleOf(CurSec.path)
            /\ k' = 1
            /\ order' = 1
            /\ buffer' = EmptyBuffer
            /\ has_evidence' = FALSE
            /\ UNCHANGED todo
    /\ UNCHANGED <<elements, idx, section_titles, toc_elements, sections,
                   current_section, last_content_section, chunks, metas, prov,
                   caller, desc_j, img_descs, outstanding, vision_calls,
                   run, first, provider, rng, tmp_files, issued, completed, gets, dir_vars>>

\* return chunks, metas
Return ==
    /\ pc = "sections"
    /\ todo = <<>>
    /\ pc' = "done"
    /\ UNCHANGED <<elements, idx, section_titles, toc_elements, sections,
                   current_section, last_content_section, chunks, metas, prov,
                   todo, k, order, buffer, has_evidence, caller, desc_j,
                   img_descs, outstanding, vision_calls,
                   run, first, provider, rng, tmp_files, issued, completed, gets, dir_vars>>

\* one element of the collecting loop of rule "1" or of the standard rule
Collected(buf, i, el, path, rule) ==
    IF IsImage(el)
    THEN [buf EXCEPT !.images = Append(@, i)]
    ELSE IF IsTable(el)
    THEN LET md_table == _element_to_markdown(el)
             keep == IF rule = "rule1" THEN Rule1KeepsTable(md_table)
                     ELSE DefaultKeepsTable(md_table, path)
         IN  IF keep THEN [buf EXCEPT !.tables = Append(@, Item(i, md_table))] ELSE buf
    ELSE IF el.text # <<>>
    THEN [buf EXCEPT !.text = Append(@, Item(i, el.text))]
    ELSE buf

\* get_vision_provider() returns a provider
ProviderKnown(name) == name = "ollama"

\* the call of _describe_images_async(images) by one of the rules; with images
\* to describe and a provider name the factory does not know, the ValueError
\* of get_vision_provider leaves the engine
CallDescribe(who) ==
    /\ gets' = IF buffer.images # <<>> THEN Append(gets, buffer.images) ELSE gets
    /\ IF buffer.images # <<>> /\ ~ProviderKnown(provider)
       THEN /\ pc' = "raised"
            /\ UNCHANGED <<caller, desc_j, img_descs>>
       ELSE /\ pc' = "describe"
            /\ caller' = who
            /\ desc_j' = 1
            /\ img_descs' = <<>>

Rule1Step ==
    /\ pc = "rule1"
    /\ IF k <= Len(CurSec.els)
       THEN /\ buffer' = Collected(buffer, CurSec.els[k], CurEl, CurSec.path, "rule1")
            /\ k' = k + 1
            /\ UNCHANGED <<pc, caller, desc_j, img_descs, gets>>
       ELSE /\ CallDescribe("rule1")
            /\ UNCHANGED <<buffer, k>>
    /\ UNCHANGED <<elements, idx, section_titles, toc_elements, sections,
                   current_section, last_content_section, chunks, metas, prov,
                   todo, order, has_evidence, outstanding, vision_calls,
                   run, first, provider, rng, tmp_files, issued, completed, dir_vars>>

DefaultStep ==
    /\ pc = "default"
    /\ IF k <= Len(CurSec.els)
       THEN /\ buffer' = Collected(buffer, CurSec.els[k], CurEl, CurSec.path, "default")
            /\ k' = k + 1
            /\ UNCHANGED <<pc, caller, desc_j, img_descs, gets>>
       ELSE /\ CallDescribe("default")
            /\ UNCHANGED <<buffer, k>>
    /\ UNCHANGED <<elements, idx, section_titles, toc_elements, sections,
                   current_section, last_content_section, chunks, metas, prov,
                   todo, order, has_evidence, outstanding, vision_calls,
                   run, first, provider, rng, tmp_files, issued, completed, dir_vars>>

\* one element of the loop of rule "2"; a Text that needs a flush first
\* awaits flush_step and is appended when the flush returns
Rule2Step ==
    /\ pc = "rule2"
    /\ k <= Len(CurSec.els)
    /\ LET i == CurSec.els[k]
           e == CurEl
       IN  IF IsImage(e)
           THEN /\ buffer' = [buffer EXCEPT !.images = Append(@, i)]
                /\ has_evidence' = TRUE
                /\ k' = k + 1
                /\ UNCHANGED <<pc, caller, desc_j, img_descs, gets>>
           ELSE IF IsTable(e)
           THEN LET md_table == _element_to_markdown(e)
                IN  /\ IF md_table # <<>>
                       THEN /\ buffer' = [buffer EXCEPT !.tables = Append(@, Item(i, md_table))]
                            /\ has_evidence' = TRUE
                       ELSE UNCHANGED <<buffer, has_evidence>>
                    /\ k' = k + 1
                    /\ UNCHANGED <<pc, caller, desc_j, img_descs, gets>>
           ELSE IF e.text = <<>>
           THEN /\ k' = k + 1
                /\ UNCHANGED <<buffer, has_evidence, pc, caller, desc_j, img_descs, gets>>
           ELSE IF FlushNeeded(has_evidence, buffer)
           THEN /\ CallDescribe("flush_step")
                /\ UNCHANGED <<buffer, has_evidence, k>>
           ELSE /\ buffer' = [buffer EXCEPT !.text = Append(@, Item(i, e.text))]
                /\ k' = k + 1
                /\ UNCHANGED <<has_evidence, pc, caller, desc_j, img_descs, gets>>
    /\ UNCHANGED <<elements, idx, section_titles, toc_elements, sections,
                   current_section, last_content_section, chunks, metas, prov,
                   todo, order, outstanding, vision_calls,
                   run, first, provider, rng, tmp_files, issued, completed, dir_vars>>

\* the flush_step after the loop of rule "2"; an empty buffer returns at once
Rule2End ==
    /\ pc = "rule2"
    /\ k > Len(CurSec.els)
    /\ IF buffer = EmptyBuffer
       THEN /\ pc' = "sections"
            /\ todo' = Tail(todo)
            /\ UNCHANGED <<caller, desc_j, img_descs, gets>>
       ELSE /\ CallDescribe("flush_step")
            /\ UNCHANGED todo
    /\ UNCHANGED <<elements, idx, section_titles, toc_elements, sections,
                   current_section, last_content_section, chunks, metas, prov,
                   k, order, buffer, has_evidence, outstanding, vision_calls,
                   run, first, provider, rng, tmp_files, issued, completed, dir_vars>>

(***************************************************************************)
(* _describe_images_async(buffer.images): one image after the other.       *)
(***************************************************************************)
\* mutant: the images are taken from the last to the first
DescIdxReversed == buffer.images[Len(buffer.images) + 1 - desc_j]

\* the image at hand
DescIdx == buffer.images[desc_j]

DescEl == elements[DescIdx]

\* _materialize_image and, when it yields a path, the call of the adapter;
\* when it raises, the except of the loop appends the placeholder
VisionIssue ==
    /\ pc = "describe"
    /\ ~outstanding
    /\ desc_j <= Len(buffer.images)
    /\ IF Materializes(DescEl)
       THEN /\ tmp_files' = tmp_files + 1
            /\ outstanding' = TRUE
            /\ vision_calls' = vision_calls + 1
            /\ issued' = Append(issued, DescIdx)
            /\ UNCHANGED <<desc_j, img_descs>>
       ELSE IF _materialize_image(DescEl) = "raises"
       THEN /\ img_descs' = Append(img_descs, Item(DescIdx, Description(DescEl)))
            /\ desc_j' = desc_j + 1
            /\ UNCHANGED <<outstanding, vision_calls, issued, tmp_files>>
       ELSE /\ desc_j' = desc_j + 1
            /\ UNCHANGED <<outstanding, vision_calls, issued, img_descs, tmp_files>>
    /\ UNCHANGED <<elements, pc, idx, section_titles, toc_elements, sections,
                   current_section, last_content_section, chunks, metas, prov,
                   todo, k, order, buffer, has_evidence, caller, run, first,
                   provider, rng, completed, gets, dir_vars>>

\* mutant: an exception of the call ends the loop over the images
VisionReturnBreaksOnRaise ==
    /\ pc = "describe"
    /\ outstanding
    /\ img_descs' = Append(img_descs, Item(DescIdx, Description(DescEl)))
    /\ completed' = Append(completed, DescIdx)
    /\ desc_j' = IF DescEl.image = "raise" THEN Len(buffer.images) + 1 ELSE desc_j + 1
    /\ outstanding' = FALSE
    /\ UNCHANGED <<elements, pc, idx, section_titles, toc_elements, sections,
                   current_section, last_content_section, chunks, metas, prov,
                   todo, k, order, buffer, has_evidence, caller, vision_calls, run, first,
                   provider, rng, tmp_files, issued, gets, dir_vars>>

\* the awaited call completes (a result, or an exception that is caught)
VisionReturn ==
    /\ pc = "describe"
    /\ outstanding
    /\ img_descs' = Append(img_descs, Item(DescIdx, Description(DescEl)))
    /\ completed' = Append(completed, DescIdx)
    /\ desc_j' = desc_j + 1
    /\ outstanding' = FALSE
    /\ UNCHANGED <<elements, pc, idx, section_titles, toc_elements, sections,
                   current_section, last_content_section, chunks, metas, prov,
                   todo, k, order, buffer, has_evidence, caller, vision_calls, run, first,
                   provider, rng, tmp_files, issued, gets, dir_vars>>

DescribeDone == pc = "describe" /\ ~outstanding /\ desc_j > Len(buffer.images)

\* chunks.append(final); metas.append(_mk_meta(ctype, final)) when final is not empty
EmitChunk(items, descs) ==
    IF items # <<>>
    THEN /\ chunks' = Append(chunks, Bodies(items))
         /\ metas' = Append(metas, _mk_meta(CurSec, order, ChunkType(descs), Bodies(items)))
         /\ prov' = Append(prov, Srcs(items))
    ELSE UNCHANGED <<chunks, metas, prov>>

\* rule "1" after the descriptions: the single chunk of the section
Rule1Emit ==
    /\ DescribeDone
    /\ caller = "rule1"
    /\ EmitChunk(Assemble(buffer, img_descs), img_descs)
    /\ pc' = "sections"
    /\ todo' = Tail(todo)
    /\ UNCHANGED <<elements, idx, section_titles, toc_elements, sections,
                   current_section, last_content_section, k, order, buffer,
                   has_evidence, caller, desc_j, img_descs, outstanding, vision_calls,
                   run, first, provider, rng, tmp_files, issued, completed, gets, dir_vars>>

\* the standard rule after the descriptions: the single chunk of the section
DefaultEmit ==
    /\ DescribeDone
    /\ caller = "default"
    /\ EmitChunk(Assemble(buffer, img_descs), img_descs)
    /\ pc' = "sections"
    /\ todo' = Tail(todo)
    /\ UNCHANGED <<elements, idx, section_titles, toc_elements, sections,
                   current_section, last_content_section, k, order, buffer,
                   has_evidence, caller, desc_j, img_descs, outstanding, vision_calls,
                   run, first, provider, rng, tmp_files, issued, completed, gets, dir_vars>>

\* flush_step after the descriptions; inside the loop the Text that asked
\* for the flush is then appended to the fresh buffer
FlushEmit ==
    /\ DescribeDone
    /\ caller = "flush_step"
    /\ EmitChunk(Assemble(buffer, img_descs), img_descs)
    /\ order' = OrderAfterFlush(order, Assemble(buffer, img_descs) # <<>>)
    /\ has_evidence' = FALSE
    /\ IF k <= Len(CurSec.els)
       THEN /\ buffer' = [EmptyBuffer EXCEPT !.text = <<Item(CurSec.els[k], CurEl.text)>>]
            /\ k' = k + 1
            /\ pc' = "rule2"
            /\ UNCHANGED todo
       ELSE /\ buffer' = EmptyBuffer
            /\ pc' = "sections"
            /\ todo' = Tail(todo)
            /\ UNCHANGED k
    /\ UNCHANGED <<elements, idx, section_titles, toc_elements, sections,
                   current_section, last_content_section, caller, desc_j,
                   img_descs, outstanding, vision_calls,
                   run, first, provider, rng, tmp_files, issued, completed, gets, dir_vars>>

Next ==
    \/ Pass1Step
    \/ BuildSections
    \/ Pass2Step
    \/ StartChunks
    \/ NextSection
    \/ Return
    \/ Rule1Step
    \/ DefaultStep
    \/ Rule2Step
    \/ Rule2End
    \/ VisionIssue
    \/ VisionReturn
    \/ Rule1Emit
    \/ DefaultEmit
    \/ FlushEmit

Spec == Init /\ [][Next]_vars

(***************************************************************************)
(* A second call of the engine on the same element sequence: every local   *)
(* of process_document_by_section_async starts afresh; the files the first *)
(* call wrote are still in TMP_DIR and uuid4 draws other names, from the   *)
(* same source or from another.  The result of the first call and the      *)
(* name of its last file are kept for comparison.                          *)
(***************************************************************************)
Restart ==
    /\ pc = "done"
    /\ run = 1
    /\ first' = [chunks |-> chunks, metas |-> metas, name |-> TmpName]
    /\ rng' \in Seeds
    /\ run' = 2
    /\ pc' = "pass1"
    /\ idx' = 1
    /\ section_titles' = EmptyMap
    /\ toc_elements' = {}
    /\ sections' = EmptyMap
    /\ current_section' = None
    /\ last_content_section' = None
    /\ chunks' = <<>>
    /\ metas' = <<>>
    /\ prov' = <<>>
    /\ todo' = <<>>
    /\ k' = 1
    /\ order' = 1
    /\ buffer' = EmptyBuffer
    /\ has_evidence' = FALSE
    /\ caller' = None
    /\ desc_j' = 1
    /\ img_descs' = <<>>
    /\ outstanding' = FALSE
    /\ vision_calls' = 0
    /\ issued' = <<>>
    /\ completed' = <<>>
    /\ gets' = <<>>
    /\ UNCHANGED <<elements, provider, tmp_files, dir_vars>>

NextTwice == Next \/ Restart

InitTwice == Start(GeneralDocs \cup Sec1Docs, {"ollama"})

SpecTwice == InitTwice /\ [][NextTwice]_vars

(***************************************************************************)
(* _process_dir: the loop over the files of the directory tree.  A file    *)
(* is what processing it meets: whether a call before the engine raises    *)
(* (path metadata, business metadata), the elements partition_file gives   *)
(* (none for a file it could not read, which it turns into an empty        *)
(* list), whether the metadata preparer raises, and whether                *)
(* vectorize_content raises, returns 0 or returns the number of chunks.    *)
(* The engine is awaited inside the loop body: its steps are the actions   *)
(* of Next, enabled from EngineCall until the engine returns or raises,    *)
(* so the files it writes to TMP_DIR and the vision calls it issues add    *)
(* up over the files, and _process_dir is suspended while each vision      *)
(* call is in flight.                                                      *)
(***************************************************************************)
MaxFiles == 3

File(b, d, p, v) == [before |-> b, doc |-> d, preparer |-> p, vectorization |-> v]

\* a description with its evidence: one chunk, one image to describe
EvidenceDoc == <<H2, TextK2, ImgOk>>

\* the same with two images at hand
Evidence2Doc == <<H2, TextK2, ImgOk, ImgOk>>

\* a document without image on which the three rules are at work
RulesDoc == <<H1, H2, H3, Marker1, TextA, Marker2, TextK2, Marker3, TextA>>

FileKinds ==
    { File("raises", <<>>, "na", "na"),
      File("returns", <<>>, "na", "na"),
      File("returns", EvidenceDoc, "raises", "na"),
      File("returns", Evidence2Doc, "returns", "all"),
      File("returns", RulesDoc, "returns", "all") }
    \cup { File("returns", EvidenceDoc, "returns", v) : v \in {"raises", "zero", "all"} }

\* with a provider name the factory does not know, the engine raises on
\* a document with an image
InitDir ==
    /\ elements = <<>>
    /\ provider \in Providers
    /\ pc = "idle"
    /\ FreshLocals
    /\ files \in BoundedSeq(FileKinds, MaxFiles)
    /\ file_i = 1
    /\ dir_pc = "loop"
    /\ handled = <<>>
    /\ processed_files = 0
    /\ successful_files = 0
    /\ total_chunks = 0
    /\ successful_chunks = 0

\* what _process_dir did with a file: whether a call before
\* vectorize_content raised, the number of chunks handed over, and what
\* vectorize_content did
Outcome(s, n, v) == [segmentation |-> s, n_chunks |-> n, vectorization |-> v]

\* for f in files: processed_files += 1, then the try block is entered
FileVisit ==
    /\ dir_pc = "loop"
    /\ file_i <= Len(files)
    /\ processed_files' = processed_files + 1
    /\ dir_pc' = "try"
    /\ UNCHANGED <<files, file_i, handled, successful_files, total_chunks,
                   successful_chunks>>
    /\ UNCHANGED engine_vars

\* the elements of the file are handed to the engine, which starts with
\* fresh locals; TMP_DIR and the calls made so far are what they are
EngineCall ==
    /\ dir_pc = "try"
    /\ files[file_i].before = "returns"
    /\ dir_pc' = "engine"
    /\ elements' = files[file_i].doc
    /\ pc' = "pass1"
    /\ idx' = 1
    /\ section_titles' = EmptyMap
    /\ toc_elements' = {}
    /\ sections' = EmptyMap
    /\ current_section' = None
    /\ last_content_section' = None
    /\ chunks' = <<>>
    /\ metas' = <<>>
    /\ prov' = <<>>
    /\ todo' = <<>>
    /\ k' = 1
    /\ order' = 1
    /\ buffer' = EmptyBuffer
    /\ has_evidence' = FALSE
    /\ caller' = None
    /\ desc_j' = 1
    /\ img_descs' = <<>>
    /\ outstanding' = FALSE
    /\ issued' = <<>>
    /\ completed' = <<>>
    /\ gets' = <<>>
    /\ UNCHANGED <<vision_calls, run, first, provider, rng, tmp_files>>
    /\ UNCHANGED <<files, file_i, handled, processed_files, successful_files,
                   total_chunks, successful_chunks>>

\* an exception reaches the except of the loop body before
\* vectorize_content is called: raised before the engine, by the engine,
\* or by the metadata preparer on the chunks the engine returned
FileException ==
    \/ dir_pc = "try" /\ files[file_i].before = "raises"
    \/ dir_pc = "engine" /\ pc = "raised"
    \/ dir_pc = "engine" /\ pc = "done" /\ chunks # <<>>
                         /\ files[file_i].preparer = "raises"

\* mutant: the exception leaves _process_dir
FileRaisesAborts ==
    /\ FileException
    /\ dir_pc' = "returned"
    /\ handled' = Append(handled, Outcome("raises", 0, "na"))
    /\ UNCHANGED <<files, file_i, processed_files, successful_files, total_chunks,
                   successful_chunks>>
    /\ UNCHANGED engine_vars

\* a call before vectorize_content raises: except Exception, continue
FileRaises ==
    /\ FileException
    /\ file_i' = file_i + 1
    /\ dir_pc' = "loop"
    /\ handled' = Append(handled, Outcome("raises", 0, "na"))
    /\ UNCHANGED <<files, processed_files, successful_files, total_chunks,
                   successful_chunks>>
    /\ UNCHANGED engine_vars

\* the engine returns no chunk: if not grouped_chunks, continue
FileEmpty ==
    /\ dir_pc = "engine"
    /\ pc = "done"
    /\ chunks = <<>>
    /\ file_i' = file_i + 1
    /\ dir_pc' = "loop"
    /\ handled' = Append(handled, Outcome("returns", 0, "na"))
    /\ UNCHANGED <<files, processed_files, successful_files, total_chunks,
                   successful_chunks>>
    /\ UNCHANGED engine_vars

\* the engine returns chunks; the metadata are prepared and
\* vectorize_content is awaited
FileChunked ==
    /\ dir_pc = "engine"
    /\ pc = "done"
    /\ chunks # <<>>
    /\ files[file_i].preparer = "returns"
    /\ dir_pc' = "vectorize"
    /\ UNCHANGED <<files, file_i, handled, processed_files, successful_files,
                   total_chunks, successful_chunks>>
    /\ UNCHANGED engine_vars

\* vectorize_content raises before its own try: except Exception, continue
VectorizeRaises ==
    /\ dir_pc = "vectorize"
    /\ files[file_i].vectorization = "raises"
    /\ file_i' = file_i + 1
    /\ dir_pc' = "loop"
    /\ handled' = Append(handled, Outcome("returns", Len(chunks), "raises"))
    /\ UNCHANGED <<files, processed_files, successful_files, total_chunks,
                   successful_chunks>>
    /\ UNCHANGED engine_vars

\* vectorize_content returns vc: the number of chunks, or 0 after an error
\* it caught itself
VectorizeReturns ==
    /\ dir_pc = "vectorize"
    /\ files[file_i].vectorization \in {"zero", "all"}
    /\ LET n == Len(chunks)
           vc == IF files[file_i].vectorization = "all" THEN n ELSE 0
       IN  /\ total_chunks' = total_chunks + n
           /\ successful_chunks' = successful_chunks + vc
           /\ successful_files' = IF vc = n THEN successful_files + 1 ELSE successful_files
           /\ handled' = Append(handled, Outcome("returns", n, files[file_i].vectorization))
    /\ file_i' = file_i + 1
    /\ dir_pc' = "loop"
    /\ UNCHANGED <<files, processed_files>>
    /\ UNCHANGED engine_vars

\* the loops are exhausted: the four counters are returned
DirReturn ==
    /\ dir_pc = "loop"
    /\ file_i > Len(files)
    /\ dir_pc' = "returned"
    /\ UNCHANGED <<files, file_i, handled, processed_files, successful_files,
                   total_chunks, successful_chunks>>
    /\ UNCHANGED engine_vars

NextDir ==
    \/ FileVisit
    \/ EngineCall
    \/ Next
    \/ FileRaises
    \/ FileEmpty
    \/ FileChunked
    \/ VectorizeRaises
    \/ VectorizeReturns
    \/ DirReturn

SpecDir == InitDir /\ [][NextDir]_vars

(***************************************************************************)
(* Properties.                                                             *)
(***************************************************************************)
Indices == 1..Len(elements)

\* the sections whose element list holds element i
AssignedTo(i) ==
    { p \in DOMAIN sections : \E n \in 1..Len(sections[p].els) : sections[p].els[n] = i }

\* how often element i stands in the element lists of all sections
Assignments(i) ==
    Cardinality({ pn \in UNION { { <<p, n>> : n \in 1..Len(sections[p].els) } :
                                  p \in DOMAIN sections } :
                  sections[pn[1]].els[pn[2]] = i })

\* how often element i contributed an item to the emitted chunks
Occ(i) ==
    Cardinality({ cn \in UNION { { <<c, n>> : n \in 1..Len(prov[c]) } :
                                  c \in 1..Len(prov) } :
                  prov[cn[1]][cn[2]] = i })

\* the positions, in output order, of the chunks of section p
SecChunkIdx(p) ==
    SelectSeq([c \in 1..Len(metas) |-> c], LAMBDA c : metas[c].section_path = p)

KindsOf(els) == [n \in 1..Len(els) |-> elements[els[n]].kind]

\* the case of C1: section "2" holds Text, Image, Text, Table, Image, Text,
\* every image describable and the table rendered
SteppedExample ==
    /\ "2" \in DOMAIN sections
    /\ KindsOf(sections["2"].els) = <<"Text", "Image", "Text", "Table", "Image", "Text">>
    /\ \A n \in 1..6 : LET el == elements[sections["2"].els[n]]
                       IN  el.image \in {"na", "ok"} /\ el.html # "empty"

\* C1: rule "2" on [Text A, Image, Text B, Table, Image, Text C] emits exactly
\* three chunks, {A, first Image}, {B, Table, second Image} and the final flush
\* {C}, in this order, with order_in_group 1, 2, 3.
C1_SteppedFlush ==
    (pc = "done" /\ SteppedExample) =>
        LET e  == sections["2"].els
            ix == SecChunkIdx("2")
        IN  /\ Len(ix) = 3
            /\ prov[ix[1]] = <<e[1], e[2]>>
            /\ prov[ix[2]] = <<e[3], e[4], e[5]>>
            /\ prov[ix[3]] = <<e[6]>>
            /\ chunks[ix[1]] = <<elements[e[1]].text, Description(elements[e[2]])>>
            /\ chunks[ix[2]] = <<elements[e[3]].text, _element_to_markdown(elements[e[4]]),
                                 Description(elements[e[5]])>>
            /\ chunks[ix[3]] = <<elements[e[6]].text>>
            /\ \A n \in 1..3 : metas[ix[n]].order_in_group = n

C1_Witness ==
    /\ pc = "done"
    /\ SteppedExample
    /\ Len(chunks) = 3
    /\ vision_calls = 2

\* whether the rule of section p puts the element into a chunk
Contributes(i, p) ==
    LET el == elements[i]
        md_table == _element_to_markdown(el)
    IN  IF IsImage(el) THEN _materialize_image(el) # None
        ELSE IF IsTable(el)
        THEN /\ md_table # <<>>
             /\ p = "1" => ~Contains(Lower(md_table), <<"control", "de", "la", "plantilla">>)
             /\ p \notin {"1", "2"} => _infer_section_from_content(md_table, FALSE) # p
        ELSE el.text # <<>>

\* C2 as stated: when the engine has returned, every element that pass 2
\* assigned to a section (not noise, not a TOC marker, not dropped for lack
\* of a section, not consumed as a marker) contributes to exactly one
\* emitted chunk.
C2_Coverage_Original ==
    pc = "done" => \A i \in Indices : AssignedTo(i) # {} => Occ(i) = 1

\* C3 as stated: a Table that is short and matches the keywords of exactly one
\* section is in no section's element list and in no emitted chunk.
C3_MarkerSuppression_Original ==
    \A i \in Indices :
        (~IsNoise(elements[i]) /\ IsPureMarker(elements[i])) =>
            (AssignedTo(i) = {} /\ Occ(i) = 0)

\* the element pass 2 has just processed
Prev == elements[idx - 1]

\* C4: right after pass 2 processed a Text or Table whose non-strict inferred
\* section is registered, current_section is that section.
C4_SectionSwitch ==
    (/\ pc = "pass2"
     /\ idx > 1
     /\ ~Skipped2(idx - 1, Prev)
     /\ ~IsImage(Prev)
     /\ _infer_section_from_content(Prev.text, FALSE) \in DOMAIN sections)
    => current_section = _infer_section_from_content(Prev.text, FALSE)

\* a pure marker switched away from another section and was dropped
C4_Witness ==
    /\ pc = "pass2"
    /\ idx > 2
    /\ ~Skipped2(idx - 1, Prev)
    /\ IsPureMarker(Prev)
    /\ current_section = _infer_section_from_content(Prev.text, FALSE)
    /\ AssignedTo(idx - 1) = {}
    /\ last_content_section \notin {None, current_section}

\* C5: per section, the order_in_group values of its chunks in output order are
\* 1, 2, ..., k; while a section is assembled the counter is one more than the
\* number of chunks the section has emitted.
C5_Ordering ==
    /\ \A p \in DOMAIN sections :
          LET ix == SecChunkIdx(p)
          IN  \A n \in 1..Len(ix) :
                  /\ metas[ix[n]].order_in_group = n
                  /\ metas[ix[n]].within_section_index = n
    /\ pc \in {"rule1", "rule2", "default", "describe"} =>
          order = Len(SecChunkIdx(Head(todo))) + 1

\* two sections emitted chunks, the second one several
C5_Witness ==
    /\ pc = "done"
    /\ Len(SecChunkIdx("1")) = 1
    /\ Len(SecChunkIdx("2")) >= 3

\* C6: section "1" never has more than one chunk.
C6_BulkSingleChunk == Len(SecChunkIdx("1")) <= 1

\* section "1" held interleaved texts, tables and images and gave one chunk
C6_Witness ==
    /\ pc = "done"
    /\ "1" \in DOMAIN sections
    /\ KindsOf(sections["1"].els) = <<"Image", "Text", "Table">>
    /\ Len(SecChunkIdx("1")) = 1
    /\ Len(chunks[1]) = 3

\* pass 1 detects no heading in the element sequence
NoHeading ==
    \A i \in Indices :
        \/ IsNoise(elements[i])
        \/ _detect_heading(elements[i].text).path = None

\* C7: without a detected heading the engine emits no chunk and no metadata,
\* issues no Vision Adapter call, and runs to its return without raising.
C7_NoHeading ==
    NoHeading =>
        /\ chunks = <<>>
        /\ metas = <<>>
        /\ vision_calls = 0
        /\ pc \in {"pass1", "pass2", "sections", "done"}
        /\ (pc # "done" => ENABLED Next)

\* a document with keyword text and an image but no heading was processed
C7_Witness ==
    /\ pc = "done"
    /\ NoHeading
    /\ \E i \in Indices : IsImage(elements[i])
    /\ \E i \in Indices : _infer_section_from_content(elements[i].text, FALSE) # None

\* C8 as stated: an assigned Image whose bytes cannot be extracted leaves one
\* placeholder description in the chunk it belongs to, when that chunk has
\* other content (here: when its section holds a Text).
C8_Placeholder_Original ==
    pc = "done" =>
        \A i \in Indices : \A p \in AssignedTo(i) :
            (/\ IsImage(elements[i])
             /\ _materialize_image(elements[i]) # "path"
             /\ \E n \in 1..Len(sections[p].els) :
                    elements[sections[p].els[n]].kind = "Text")
            => Occ(i) = 1

\* C9: a second run on the same elements, with the same adapter and converter
\* results per element, returns the same chunks and the same metadata,
\* content_sha included, whatever files the first run left in TMP_DIR and
\* whatever names uuid4 gives the files of the second run.
C9_Idempotence ==
    (run = 2 /\ pc = "done") => (chunks = first.chunks /\ metas = first.metas)

\* the second run has returned chunks with image descriptions; its files
\* were written next to those of the first run, under names of another source
C9_Witness ==
    /\ run = 2
    /\ pc = "done"
    /\ Len(chunks) >= 2
    /\ \E c \in 1..Len(metas) : metas[c].chunk_type = "mixed"
    /\ first.name[2] > 0
    /\ tmp_files > first.name[2]
    /\ rng # first.name[1]

\* C10: every element is in the element list of at most one section, at most
\* once; noise elements and TOC markers are in none.
C10_SingleAssignment ==
    \A p \in DOMAIN sections : \A n \in 1..Len(sections[p].els) :
        LET i == sections[p].els[n]
        IN  /\ \A q \in DOMAIN sections : \A m \in 1..Len(sections[q].els) :
                   sections[q].els[m] = i => (q = p /\ m = n)
            /\ ~(i \in toc_elements \/ IsNoise(elements[i]))

\* after pass 2: a noise element and a TOC marker that follows assigned
\* content were skipped
C10_Witness ==
    /\ pc = "sections"
    /\ \E i \in Indices : IsNoise(elements[i])
    /\ \E i \in toc_elements : \E j \in 1..(i - 1) : Assignments(j) = 1

\* the section the chunk generation is working on, while it is inside a rule
Assembling == pc \in {"rule1", "rule2", "default", "describe"}

\* C11: a registered section to which pass 2 assigned no element is never
\* assembled: no chunk carries its path, and no Vision Adapter call is issued
\* or awaited for it.
C11_EmptySection ==
    /\ \A c \in 1..Len(metas) : sections[metas[c].section_path].els # <<>>
    /\ Assembling => CurSec.els # <<>>
    /\ outstanding => CurSec.els # <<>>

\* a run that passed a registered section without elements and described an
\* image for another section
C11_Witness ==
    /\ pc = "done"
    /\ \E p \in DOMAIN sections : sections[p].els = <<>>
    /\ chunks # <<>>
    /\ vision_calls > 0

\* C12: chunks and metas have the same length, and the content_sha of every
\* metadata record is the hash of exactly the chunk at the same position; two
\* chunks with the same content carry the same content_sha.
C12_ContentSha ==
    /\ Len(chunks) = Len(metas)
    /\ \A c \in 1..Len(metas) :
           metas[c].content_sha = [alg |-> "sha256", of |-> chunks[c]]
    /\ \A c, d \in 1..Len(metas) :
           chunks[c] = chunks[d] => metas[c].content_sha = metas[d].content_sha

\* two chunks of one run have the same content, and another chunk differs
C12_Witness ==
    /\ pc = "done"
    /\ \E c, d \in 1..Len(chunks) : c # d /\ chunks[c] = chunks[d] /\ Len(chunks[c]) >= 2
    /\ \E c, d \in 1..Len(chunks) : chunks[c] # chunks[d]

\* an image description stands in chunk c
HasDescription(c) == \E n \in 1..Len(prov[c]) : IsImage(elements[prov[c][n]])

\* C13: the chunk_type of a chunk is "mixed" when an image description, real
\* or placeholder, was produced for its buffer, and "text" otherwise.
C13_ChunkType ==
    \A c \in 1..Len(metas) :
        metas[c].chunk_type = IF HasDescription(c) THEN "mixed" ELSE "text"

\* a chunk of type "mixed" next to a chunk of type "text" whose section holds
\* a table
C13_Witness ==
    /\ pc = "done"
    /\ \E c \in 1..Len(metas) : metas[c].chunk_type = "mixed"
    /\ \E c \in 1..Len(metas) :
           /\ metas[c].chunk_type = "text"
           /\ metas[c].table_count > 0

\* the image cannot be materialized, or the call for it raises or reports
\* failure
CallFails(el) == IsImage(el) /\ el.image \in {"fail", "raise", "mraise"}

\* the one item of element i in the emitted chunks
ItemsOf(i) ==
    { cn \in UNION { { <<c, n>> : n \in 1..Len(prov[c]) } : c \in 1..Len(prov) } :
          prov[cn[1]][cn[2]] = i }

\* C14: while a batch is described, the descriptions produced so far are those
\* of the images already visited for which _materialize_image did not return
\* None, one each and in the order of the batch, whatever the calls returned;
\* once the engine has returned, an image that could not be materialized or
\* whose call raised or reported failure has exactly one placeholder in the
\* chunks and every text and table of its section that the rule keeps is in
\* a chunk.
C14_FailureLocalized ==
    /\ pc = "describe" =>
           LET seen == SubSeq(buffer.images, 1, desc_j - 1)
           IN  /\ Srcs(img_descs) =
                      SelectSeq(seen, LAMBDA i : _materialize_image(elements[i]) # None)
               /\ \A n \in 1..Len(img_descs) :
                      img_descs[n].body = Description(elements[img_descs[n].src])
    /\ pc = "done" =>
           \A i \in Indices : \A p \in AssignedTo(i) :
               CallFails(elements[i]) =>
                   /\ Occ(i) = 1
                   /\ \A cn \in ItemsOf(i) :
                          chunks[cn[1]][cn[2]] \in
                              { <<"[IMAGEN]", "Descripción", "no", "disponible.">>,
                                <<"[IMAGEN]", "Error", "de", "procesamiento">> }
                   /\ \A j \in Indices :
                          (p \in AssignedTo(j) /\ Contributes(j, p)) => Occ(j) = 1

\* a chunk holds a text, the placeholder of an image whose call raised and,
\* after it, the description of a later image of the same batch
C14_Witness ==
    /\ pc = "done"
    /\ \E c \in 1..Len(chunks) : \E n \in 2..(Len(chunks[c]) - 1) :
           /\ elements[prov[c][1]].kind = "Text"
           /\ elements[prov[c][n]].image = "raise"
           /\ elements[prov[c][n + 1]].image = "ok"
           /\ chunks[c][n + 1] = <<"[IMAGEN]", "texto", "de", "la", "imagen">>

\* C15 as stated: no failure of the Vision Adapter leaves the engine; with
\* images to describe, the engine goes on to its return whether the provider
\* cannot be obtained, the call raises or the call reports failure.
C15_NoVisionEscape_Original == pc # "raised"

\* the positions of the top-level headings of path p that pass 1 detects
TopHeadings(p) ==
    { i \in Indices : /\ ~IsNoise(elements[i])
                      /\ _detect_heading(elements[i].text).path = p
                      /\ _detect_heading(elements[i].text).title # <<>> }

\* C16 as stated: after pass 1 the title of a section that has a top-level
\* heading is the title of the first of its top-level headings; no later
\* heading replaces it.
C16_FirstTitleWins_Original ==
    pc # "pass1" =>
        \A p \in DOMAIN section_titles :
            TopHeadings(p) # {} =>
                section_titles[p] =
                    _detect_heading(elements[SetMin(TopHeadings(p))].text).title

\* C17 as stated: under the standard rule a table with a non-empty rendering
\* is in the chunk of its section exactly when the non-strict inference gives
\* the rendering no section or the section being assembled.
C17_DefaultTableFilter_Original ==
    pc = "done" =>
        \A i \in Indices : \A p \in AssignedTo(i) :
            (/\ IsTable(elements[i])
             /\ p \notin {"1", "2"}
             /\ _element_to_markdown(elements[i]) # <<>>)
            => (Occ(i) = 1 <=>
                   _infer_section_from_content(_element_to_markdown(elements[i]), FALSE)
                       \in {None, p})

\* the noise test as the claims state it: the kind, a page-number line or a
\* boilerplate token, and nothing else
StatedNoise(el) ==
    LET s == Words(Lower(el.text))
    IN  \/ el.kind \in NoiseKinds
        \/ (Len(s) >= 2 /\ s[1] \in {"página", "pagina"})
        \/ \E tok \in SKIP_TOKENS : Contains(s, tok)

\* C18 as stated: right after pass 2 passed an Image that is neither noise
\* (kind, page-number line, boilerplate token) nor a TOC marker, whatever its
\* text, the image is in the list of last_content_section if that is set,
\* else of current_section if that is set, and in no list when both are null.
C18_ImageAttribution_Original ==
    (/\ pc = "pass2"
     /\ idx > 1
     /\ IsImage(Prev)
     /\ ~StatedNoise(Prev)
     /\ (idx - 1) \notin toc_elements)
    => AssignedTo(idx - 1) =
           IF last_content_section # None THEN {last_content_section}
           ELSE IF current_section # None THEN {current_section}
           ELSE {}

\* C19: a pass-2 step on an Image leaves current_section and
\* last_content_section unchanged, whatever the text of the image; an image
\* that is not skipped and has a target section is appended to it, never
\* dropped as a marker.
C19_ImageFrame ==
    [][ (pc = "pass2" /\ idx <= Len(elements) /\ IsImage(elements[idx])) =>
            /\ current_section' = current_section
            /\ last_content_section' = last_content_section
            /\ (/\ ~Skipped2(idx, elements[idx])
                /\ ImageTarget(last_content_section, current_section) # None)
               => \E n \in 1..Len(sections'[ImageTarget(last_content_section, current_section)].els) :
                      sections'[ImageTarget(last_content_section, current_section)].els[n] = idx
      ]_vars

\* pass 2 has just passed an Image whose text names a registered section
\* other than the current one; the image went to the section at hand
C19_Witness ==
    /\ pc = "pass2"
    /\ idx > 1
    /\ IsImage(Prev)
    /\ _infer_section_from_content(Prev.text, FALSE) \in DOMAIN sections
    /\ _infer_section_from_content(Prev.text, TRUE) # None
    /\ current_section \notin {None, _infer_section_from_content(Prev.text, FALSE)}
    /\ AssignedTo(idx - 1) = {ImageTarget(last_content_section, current_section)}

\* C20 as stated: pass 2 skips an element exactly when it is noise by kind,
\* page-number line or boilerplate token: a noise element is in no list, and
\* any other Text that is not a TOC marker, an empty one included, is appended
\* to the section that is current after it.
C20_NoiseFilter_Original ==
    /\ \A i \in Indices : StatedNoise(elements[i]) => Assignments(i) = 0
    /\ (/\ pc = "pass2"
        /\ idx > 1
        /\ Prev.kind = "Text"
        /\ ~StatedNoise(Prev)
        /\ (idx - 1) \notin toc_elements
        /\ current_section # None)
       => AssignedTo(idx - 1) = {current_section}

\* the sections one of whose keywords the inferencer finds in the text
MatchedSections(text) ==
    { s \in {"1", "2", "3"} :
          \E kw \in SECTION_KEYWORDS(s) : Contains(_strip_accents(Lower(text)), kw) }

\* C21 as stated: a pass-2 step on a Table whose text matches the keywords of
\* more than one section, taken while a section is current, leaves
\* current_section unchanged and appends the table to that section.
C21_AmbiguousTable_Original ==
    [][ (/\ pc = "pass2"
         /\ idx <= Len(elements)
         /\ IsTable(elements[idx])
         /\ ~Skipped2(idx, elements[idx])
         /\ Cardinality(MatchedSections(elements[idx].text)) > 1
         /\ current_section # None)
        => /\ current_section' = current_section
           /\ \E n \in 1..Len(sections'[current_section].els) :
                  sections'[current_section].els[n] = idx
      ]_vars

\* the classification as stated: text and keywords both folded for case and
\* accents, the first section in the order "1", "2", "3" with a keyword found
StatedInference(text) ==
    LET folded == _strip_accents(Lower(text))
        Hit(s) == \E kw \in SECTION_KEYWORDS(s) : Contains(folded, _strip_accents(Lower(kw)))
        matches == SelectSeq(SectionKeys, Hit)
    IN  IF matches = <<>> THEN None ELSE matches[1]

\* C22 as stated: the non-strict inference that pass 2 has just run on a Text
\* or Table returns the first section one of whose keywords occurs in the
\* text in any letter case and with or without its accents, and none only
\* when no keyword of any section occurs.
C22_KeywordFolding_Original ==
    (/\ pc = "pass2"
     /\ idx > 1
     /\ ~IsImage(Prev)
     /\ ~Skipped2(idx - 1, Prev))
    => _infer_section_from_content(Prev.text, FALSE) = StatedInference(Prev.text)

\* the block an element stands for in a chunk: 1 texts, 2 tables, 3 images
BlockOf(i) ==
    CASE elements[i].kind = "Table" -> 2
      [] elements[i].kind = "Image" -> 3
      [] OTHER                      -> 1

\* C23: in every emitted chunk, whichever rule emitted it, the items are the
\* texts, then the rendered tables, then the image descriptions, each block
\* in element order; no item is empty and no chunk is empty.
C23_BlockOrder ==
    \A c \in 1..Len(chunks) :
        /\ chunks[c] # <<>>
        /\ \A n \in 1..Len(chunks[c]) :
               LET el == elements[prov[c][n]]
               IN  /\ chunks[c][n] # <<>>
                   /\ chunks[c][n] = CASE BlockOf(prov[c][n]) = 1 -> el.text
                                       [] BlockOf(prov[c][n]) = 2 -> _element_to_markdown(el)
                                       [] OTHER -> Description(el)
        /\ \A n, n2 \in 1..Len(prov[c]) :
               n < n2 => \/ BlockOf(prov[c][n]) < BlockOf(prov[c][n2])
                         \/ /\ BlockOf(prov[c][n]) = BlockOf(prov[c][n2])
                            /\ prov[c][n] < prov[c][n2]

\* a chunk of text, table and description whose elements stood in the
\* document as image, table, text
C23_Witness ==
    /\ pc = "done"
    /\ \E c \in 1..Len(chunks) :
           /\ Len(prov[c]) = 3
           /\ [n \in 1..3 |-> BlockOf(prov[c][n])] = <<1, 2, 3>>
           /\ prov[c][3] < prov[c][2]
           /\ prov[c][2] < prov[c][1]

\* the images of a batch for which the adapter is called
CalledOf(imgs) == SelectSeq(imgs, LAMBDA i : Materializes(elements[i]))

\* the calls of the batches g..Len(gs) when each batch is run to its end
RECURSIVE CallsOfBatches(_, _)
CallsOfBatches(gs, g) ==
    IF g > Len(gs) THEN <<>> ELSE CalledOf(gs[g]) \o CallsOfBatches(gs, g + 1)

\* the calls of the batch at hand: those of the images visited so far
CallsOfCurrent ==
    CalledOf(SubSeq(buffer.images, 1, IF outstanding THEN desc_j ELSE desc_j - 1))

\* C24: the calls that have ended are a prefix of the calls issued and at
\* most one call has not ended; the calls issued are, batch after batch, the
\* images with bytes in element order, up to the image at hand; the provider
\* is obtained only for a batch that holds an image, so an unknown provider
\* name raises only then.
C24_SequentialCalls ==
    /\ Len(issued) - Len(completed) \in {0, 1}
    /\ completed = SubSeq(issued, 1, Len(completed))
    /\ \A g \in 1..Len(gets) : gets[g] # <<>>
    /\ pc = "raised" => (buffer.images # <<>> /\ issued = <<>>)
    /\ pc # "raised" =>
          issued = IF pc = "describe" /\ buffer.images # <<>>
                   THEN CallsOfBatches(SubSeq(gets, 1, Len(gets) - 1), 1) \o CallsOfCurrent
                   ELSE CallsOfBatches(gets, 1)

\* the second call of the first batch with images is in flight, the first
\* has ended, and an earlier batch without images has given a chunk
C24_Witness ==
    /\ pc = "describe"
    /\ outstanding
    /\ desc_j = 2
    /\ Len(issued) = 2
    /\ Len(completed) = 1
    /\ issued[1] < issued[2]
    /\ Len(gets) = 1
    /\ Len(chunks) >= 1

\* the rank of a path among the paths of the vocabulary, as strings
PathRank(p) == CHOOSE n \in 1..Len(PathOrder) : PathOrder[n] = p

\* C25: in the list of chunks the section paths never descend, so the chunks
\* of one section are contiguous and the sections stand in ascending order
\* of path; of two chunks of section "2" the earlier one holds only elements
\* that stand in the document before every element of the later one.
C25_OutputOrder ==
    \A c, c2 \in 1..Len(metas) :
        c < c2 =>
            /\ PathRank(metas[c].section_path) <= PathRank(metas[c2].section_path)
            /\ (metas[c].section_path = "2" /\ metas[c2].section_path = "2") =>
                   \A n \in 1..Len(prov[c]) : \A n2 \in 1..Len(prov[c2]) :
                       prov[c][n] < prov[c2][n2]

\* the document holds the content of section "3" before the content of
\* section "2", and the chunk of section "2" comes first
C25_Witness ==
    /\ pc = "done"
    /\ \E c, c2 \in 1..Len(metas) :
           /\ c < c2
           /\ metas[c].section_path = "2"
           /\ metas[c2].section_path = "3"
           /\ prov[c2][1] < prov[c][1]

\* [min, max] of a set of page numbers, the empty tuple for no page
RangeOf(ps) ==
    IF ps = {} THEN <<>>
    ELSE <<CHOOSE x \in ps : \A y \in ps : x <= y, CHOOSE x \in ps : \A y \in ps : x >= y>>

\* C26 as stated: page_range of a chunk is [min, max] of the page numbers of
\* the elements merged into that chunk, absent exactly when none of them
\* carries a page number.
C26_PageRange_Original ==
    \A c \in 1..Len(metas) :
        metas[c].page_range =
            RangeOf({ elements[prov[c][n]].page : n \in 1..Len(prov[c]) } \ {NoPage})

\* C26 as amended: page_range of a chunk is [min, max] of the non-zero page
\* numbers of all elements that pass 2 assigned to the chunk's section,
\* merged into this chunk or not, absent exactly when none of them carries a
\* non-zero page number.
C26_PageRange ==
    \A c \in 1..Len(metas) :
        LET els == sections[metas[c].section_path].els
        IN  metas[c].page_range =
                RangeOf({ elements[els[n]].page : n \in 1..Len(els) } \ {NoPage, 0})

\* a chunk of a step whose elements are all on page 1 or without page carries
\* the range [1, 2] of its section
C26_Witness ==
    /\ pc = "done"
    /\ \E c \in 1..Len(metas) :
           /\ metas[c].section_path = "2"
           /\ metas[c].page_range = <<1, 2>>
           /\ \A n \in 1..Len(prov[c]) : elements[prov[c][n]].page \in {1, NoPage}
           /\ \E n \in 1..Len(prov[c]) : elements[prov[c][n]].page = 1

\* the chunks that hold an item of element i
ChunksOf(i) == { c \in 1..Len(prov) : \E n \in 1..Len(prov[c]) : prov[c][n] = i }

\* C27 as stated: while a flush of rule "2" before the end of the section is
\* under way, the buffer holds a text and a table or image that stands in the
\* document after that text; and once the engine has returned, two Text
\* elements that are neighbours in the list of section "2" are in the same
\* chunk.
C27_FlushCondition_Original ==
    /\ (/\ pc = "describe"
        /\ caller = "flush_step"
        /\ k <= Len(CurSec.els))
       => \E t \in 1..Len(buffer.text) :
              \/ \E e \in 1..Len(buffer.tables) : buffer.tables[e].src > buffer.text[t].src
              \/ \E e \in 1..Len(buffer.images) : buffer.images[e] > buffer.text[t].src
    /\ (pc = "done" /\ "2" \in DOMAIN sections)
       => LET els == sections["2"].els
          IN  \A n \in 1..(Len(els) - 1) :
                  (/\ elements[els[n]].kind = "Text"
                   /\ elements[els[n + 1]].kind = "Text")
                  => ChunksOf(els[n]) = ChunksOf(els[n + 1])

\* the files whose processing has ended, as what was done with each
Handled == handled

\* the files for which vectorize_content returned
Stored(fs) == SelectSeq(fs, LAMBDA f : f.vectorization \in {"zero", "all"})

RECURSIVE SumChunks(_)
SumChunks(fs) == IF fs = <<>> THEN 0 ELSE Head(fs).n_chunks + SumChunks(Tail(fs))

\* C28: every file visited is counted in processed_files, whatever happens
\* to it, and is handled once; the other three counters are the sums over
\* the files handled so far for which vectorize_content returned, so a file
\* that fails leaves them as they were; successful_files <= processed_files
\* and successful_chunks <= total_chunks; and _process_dir returns only
\* after every file has been visited.
C28_FileIsolation ==
    /\ processed_files = (file_i - 1) + (IF dir_pc \in {"try", "engine", "vectorize"} THEN 1 ELSE 0)
    /\ Len(Handled) = file_i - 1
    /\ total_chunks = SumChunks(Stored(Handled))
    /\ successful_chunks =
           SumChunks(SelectSeq(Handled, LAMBDA f : f.vectorization = "all"))
    /\ successful_files = Len(SelectSeq(Handled, LAMBDA f : f.vectorization = "all"))
    /\ successful_files <= processed_files
    /\ successful_chunks <= total_chunks
    /\ dir_pc = "returned" => (file_i = Len(files) + 1 /\ processed_files = Len(files))

\* _process_dir has returned after a file whose metadata preparer raised
\* once the engine had written a file to TMP_DIR, a file whose
\* vectorization raised and a file that was stored
C28_Witness ==
    /\ dir_pc = "returned"
    /\ Len(files) = 3
    /\ files[1].preparer = "raises"
    /\ Handled[1].segmentation = "raises"
    /\ Handled[2].vectorization = "raises"
    /\ Handled[3].vectorization = "all"
    /\ Handled[3].n_chunks > 0
    /\ tmp_files > 0
    /\ processed_files = 3
    /\ successful_files = 1
    /\ total_chunks = Handled[3].n_chunks

\* C29 as stated, for a bound that the prose line of the inputs exceeds: a
\* line as long as that one is not recorded as a TOC marker and its words
\* are not the title of a section.
C29_HeadingLengthBound_Original ==
    \A i \in Indices :
        Len(elements[i].text) >= Len(LongLine.text) =>
            /\ i \notin toc_elements
            /\ \A p \in DOMAIN section_titles : section_titles[p] # Tail(elements[i].text)

\* current_section is null or registered; last_content_section is null or
\* a registered path whose element list holds a Text or a Table
Pass2StateOk ==
    /\ (current_section # None) =>
           (current_section \in DOMAIN section_titles /\ current_section \in DOMAIN sections)
    /\ (last_content_section # None) =>
           /\ last_content_section \in DOMAIN section_titles
           /\ last_content_section \in DOMAIN sections
           /\ \E n \in 1..Len(sections[last_content_section].els) :
                  elements[sections[last_content_section].els[n]].kind \in {"Text", "Table"}

\* C30: in every state current_section is null or a path registered in pass
\* 1, and last_content_section is null or a registered path whose element
\* list holds a Text or a Table; no step makes a non-null current_section
\* null.
C30_Pass2State ==
    /\ []Pass2StateOk
    /\ [][(current_section # None) => (current_section' # None)]_vars

\* pass 2 has ended in a section other than the one that last received
\* content, and an image went to the latter
C30_Witness ==
    /\ pc = "pass2"
    /\ idx > Len(elements)
    /\ current_section # None
    /\ last_content_section \notin {None, current_section}
    /\ \E n \in 1..Len(sections[last_content_section].els) :
           elements[sections[last_content_section].els[n]].kind = "Image"

====
